---- MODULE Spec2Model ----
(***************************************************************************)
(* Weekly staffing planner (src/main.py): the occupancy grid builder, the  *)
(* shift projector and the session handlers that maintain the people list. *)
(*                                                                         *)
(* Times of day and datetimes on the reference date are seconds since that *)
(* date's midnight; a DataFrame is a record of its row labels (index), its *)
(* column labels and its cells, addressed by row position 1..n and column  *)
(* position 0..6 as df.iloc does.                                          *)
(***************************************************************************)
EXTENDS Integers, Sequences, FiniteSets

VARIABLES
    people,       \* st.session_state.people: list of person records
    edit_id,      \* st.session_state.edit_id (None or a person id)
    uuid_count,   \* number of ids uuid.uuid4() has handed out
    interval,     \* value of the "Interval (minutes)" selectbox
    msg,          \* message the last script run left on the page
    grid,         \* staffing grid the last script run built
    step_minutes, \* build_empty_grid: its argument
    t,            \* build_empty_grid: loop variable t
    times,        \* build_empty_grid: list times
    bpc,          \* build_empty_grid: "loop" or "returned"
    df            \* build_empty_grid: the frame returned

vars == <<people, edit_id, uuid_count, interval, msg, grid,
          step_minutes, t, times, bpc, df>>

sessionVars == <<people, edit_id, uuid_count, interval, msg, grid>>
buildVars == <<step_minutes, t, times, bpc, df>>

----------------------------------------------------------------------------
(* Bounds of the model *)

\* longest people list the session is driven to
MaxPeople == 2
\* ids uuid4 hands out in one session
MaxIds == 2
\* iterations of build_empty_grid's loop that are followed
MaxIter == 1445
\* largest interval build_empty_grid is called with
MaxBuildInterval == 1441
\* number of non-positive intervals build_empty_grid is called with (0, -1, ...)
NonPositiveIntervals == 2
\* shift starts and ends are drawn every TimeGrain minutes (and from SpecTimes)
TimeGrain == 45

----------------------------------------------------------------------------
(* Helpers, lines 13-88 *)

DAYS == <<"Monday", "Tuesday", "Wednesday", "Thursday", "Friday", "Saturday", "Sunday">>

DAY_TO_IDX == [d \in {DAYS[i] : i \in 1..Len(DAYS)} |->
                  (CHOOSE i \in 1..Len(DAYS) : DAYS[i] = d) - 1]

\* datetime.time(h, m, s), as seconds since midnight
time(h, m, s) == (h * 60 + m) * 60 + s

\* timedelta(days=1) and timedelta(minutes=n), in seconds
OneDay == time(24, 0, 0)
timedelta(minutes) == minutes * 60

\* datetime.time() of a datetime: its time of day
TimeOf(dt) == dt % OneDay

None == 0

\* a frame not yet built
NoFrame == [index |-> <<>>, columns |-> <<>>, data |-> <<>>]

\* pd.DataFrame(0, index=times, columns=DAYS, dtype=int)
ZeroFrame(index) ==
    [index |-> index, columns |-> DAYS,
     data |-> [r \in 1..Len(index) |-> [c \in 0..(Len(DAYS) - 1) |-> 0]]]

\* F applied to the value of v, which is evaluated once
Let(v, F(_)) == CHOOSE y \in {F(x) : x \in {v}} : TRUE

\* number of iterations of "while t < bound: ...; t += step" from t = t0, step > 0
LoopCount(t0, bound, step) ==
    IF t0 < bound THEN (bound - t0 + step - 1) \div step ELSE 0

\* t = t0; while t < bound: yield t.time(); t += step
WhileLess(t0, bound, step) ==
    [k \in 1..LoopCount(t0, bound, step) |-> TimeOf(t0 + (k - 1) * step)]

\* t = t0; while t <= bound: yield t.time(); t += step
WhileAtMost(t0, bound, step) ==
    [k \in 1..LoopCount(t0, bound + 1, step) |-> TimeOf(t0 + (k - 1) * step)]

\* time_range with the same-day loop written "while t <= t1"
TimeRangeInclusiveEnd(start, end, stepMin) ==
    LET step == timedelta(stepMin)
    IN  IF end <= start
        THEN WhileAtMost(start, time(23, 59, 59), step) \o WhileLess(time(0, 0, 0), end, step)
        ELSE WhileAtMost(start, end, step)

\* time_range stepping from the slot boundary at or before start
TimeRangeFromSlot(start, end, stepMin) ==
    LET step == timedelta(stepMin)
        t0 == (start \div step) * step
    IN  IF end <= start
        THEN WhileAtMost(t0, time(23, 59, 59), step) \o WhileLess(time(0, 0, 0), end, step)
        ELSE WhileLess(t0, end, step)

\* time_range(start, end, step_minutes): the sequence of times it yields
time_range(start, end, stepMin) ==
    LET t0 == start
        t1 == end
        step == timedelta(stepMin)
    IN  IF t1 <= t0
        THEN WhileAtMost(t0, time(23, 59, 59), step) \o WhileLess(time(0, 0, 0), t1, step)
        ELSE WhileLess(t0, t1, step)

\* build_empty_grid(step_minutes), for an interval whose loop ends
build_empty_grid(stepMin) ==
    ZeroFrame(WhileLess(time(0, 0, 0), time(0, 0, 0) + OneDay, timedelta(stepMin)))

\* the number of the ticks tt with "tt in df.index" whose row,
\* df.index.get_loc(tt), is row r; tickSet is the set of the ticks, and
\* distinct says that no two ticks are equal
Hits(index, ticks, tickSet, distinct, r) ==
    IF index[r] \notin tickSet THEN 0
    ELSE IF distinct THEN 1
    ELSE Cardinality({k \in 1..Len(ticks) : ticks[k] = index[r]})

\* for tt in ticks: if tt in df.index: df.iloc[df.index.get_loc(tt), col] += 1
IncrementTicks(frame, ticks, col) ==
    Let(<<frame, ticks>>, LAMBDA a :
        Let({a[2][k] : k \in 1..Len(a[2])}, LAMBDA tickSet :
            [a[1] EXCEPT !.data =
                [r \in DOMAIN @ |->
                    [@[r] EXCEPT ![col] = @ + Hits(a[1].index, a[2], tickSet,
                                                   Cardinality(tickSet) = Len(a[2]), r)]]]))

\* day_indices of a person: the selected days, or their complement in range(7)
RECURSIVE ComplementFrom(_, _)
ComplementFrom(i, selected) ==
    IF i >= 7 THEN <<>>
    ELSE (IF \E k \in 1..Len(selected) : selected[k] = i THEN <<>> ELSE <<i>>)
         \o ComplementFrom(i + 1, selected)

\* day_indices without the "Days off" branch
DayIndicesAsSelected(person) == person.days

day_indices(person) ==
    IF person.mode = "Working days" THEN person.days
    ELSE ComplementFrom(0, person.days)

\* the body of "for d_idx in day_indices", lines 70-85
ApplyDay(frame, d_idx, start_t, end_t, stepMin) ==
    IF end_t > start_t
    THEN IncrementTicks(frame, time_range(start_t, end_t, stepMin), d_idx)
    ELSE LET first == IncrementTicks(frame,
                          time_range(start_t, time(23, 59, 59), stepMin), d_idx)
             next_day == (d_idx + 1) % 7
         IN  IncrementTicks(first, time_range(time(0, 0, 0), end_t, stepMin), next_day)

RECURSIVE ApplyDays(_, _, _, _, _)
ApplyDays(frame, days, start_t, end_t, stepMin) ==
    IF days = <<>> THEN frame
    ELSE ApplyDays(ApplyDay(frame, Head(days), start_t, end_t, stepMin),
                   Tail(days), start_t, end_t, stepMin)

\* apply_person_to_grid(df, person, step_minutes): the frame after the call
apply_person_to_grid(frame, person, stepMin) ==
    ApplyDays(frame, day_indices(person), person.start, person.end, stepMin)

\* the loop of lines 218-219 with the grid rebuilt for every person
ApplyPeopleRebuilt(frame, persons, stepMin) ==
    IF persons = <<>> THEN frame
    ELSE apply_person_to_grid(frame, persons[Len(persons)], stepMin)

\* for person in people: apply_person_to_grid(grid, person, interval)
RECURSIVE ApplyPeople(_, _, _)
ApplyPeople(frame, persons, stepMin) ==
    IF persons = <<>> THEN frame
    ELSE ApplyPeople(apply_person_to_grid(frame, Head(persons), stepMin),
                     Tail(persons), stepMin)

\* lines 216-219: the grid a script run builds
BuildStaffingGrid(persons, stepMin) ==
    ApplyPeople(build_empty_grid(stepMin), persons, stepMin)

----------------------------------------------------------------------------
(* build_empty_grid, lines 42-53, one loop iteration at a time *)

BuildIntervals == (0 - (NonPositiveIntervals - 1))..MaxBuildInterval

\* the session while build_empty_grid alone is exercised
SessionIdle ==
    /\ people = <<>> /\ edit_id = None /\ uuid_count = 0
    /\ interval = 30 /\ msg = "none" /\ grid = NoFrame

InitBuild ==
    /\ SessionIdle
    /\ step_minutes \in BuildIntervals
    /\ t = time(0, 0, 0)
    /\ times = <<>>
    /\ bpc = "loop"
    /\ df = NoFrame

\* the loop test of line 48 written with <= (the bound 24:00 taken as a slot)
BuildLoopTestInclusive == t <= time(0, 0, 0) + OneDay

\* while t < end
BuildLoopTest == t < time(0, 0, 0) + OneDay

\* times.append(t.time()); t += step
BuildLoop ==
    /\ bpc = "loop"
    /\ BuildLoopTest
    /\ Len(times) < MaxIter
    /\ times' = Append(times, TimeOf(t))
    /\ t' = t + timedelta(step_minutes)
    /\ UNCHANGED <<step_minutes, bpc, df, sessionVars>>

\* df = pd.DataFrame(0, ...); return df
BuildReturn ==
    /\ bpc = "loop"
    /\ ~BuildLoopTest
    /\ df' = ZeroFrame(times)
    /\ bpc' = "returned"
    /\ UNCHANGED <<step_minutes, t, times, sessionVars>>

NextBuild == BuildLoop \/ BuildReturn

SpecBuild == InitBuild /\ [][NextBuild]_vars

\* the frame the loop returns is the frame build_empty_grid is computed as
BuildLoopAgrees ==
    (bpc = "returned" /\ step_minutes > 0) => df = build_empty_grid(step_minutes)

----------------------------------------------------------------------------
(* The session: one action per script run, lines 90-219.  A button click   *)
(* or a change of the interval selectbox starts a run with the widgets'    *)
(* values; every run ends by building the staffing grid from the people    *)
(* list.  A name is a sequence of characters.  The "__form_defaults__"     *)
(* entry that Load into form writes is never read and is left out.         *)

Intervals == {15, 30, 60}

Range(seq) == {seq[i] : i \in 1..Len(seq)}

\* str.strip(): leading and trailing blanks removed
RECURSIVE LStrip(_)
LStrip(name) ==
    IF name # <<>> /\ Head(name) = " " THEN LStrip(Tail(name)) ELSE name

RECURSIVE RStrip(_)
RStrip(name) ==
    IF name # <<>> /\ name[Len(name)] = " "
    THEN RStrip(SubSeq(name, 1, Len(name) - 1)) ELSE name

Strip(name) == RStrip(LStrip(name))

NameError == "Please enter a name."
DurationError == "Start time and end time cannot be identical (duration would be 0)."
SelectedInfo == "Selected. Update the sidebar fields manually, then click Add / Update to save changes."

\* the validation of lines 131-134 with the name tested unstripped
FormErrorUnstripped(form) ==
    IF form.name = <<>> THEN NameError
    ELSE IF form.start = form.end THEN DurationError
    ELSE "none"

\* lines 131-134: the error an Add / Update shows, "none" when it is accepted
FormError(form) ==
    IF Strip(form.name) = <<>> THEN NameError
    ELSE IF form.start = form.end THEN DurationError
    ELSE "none"

\* lines 136-143
Payload(form, id) ==
    [id |-> id, name |-> Strip(form.name), mode |-> form.mode,
     days |-> [k \in 1..Len(form.days) |-> DAY_TO_IDX[form.days[k]]],
     start |-> form.start, end |-> form.end]

\* lines 148-151: the first record whose id is edit_id is replaced, if there is one
UpdateExisting(persons, id, payload) ==
    IF \E i \in 1..Len(persons) : persons[i].id = id
    THEN LET i == CHOOSE j \in 1..Len(persons) :
                     /\ persons[j].id = id
                     /\ \A k \in 1..(j - 1) : persons[k].id # id
         IN  [persons EXCEPT ![i] = payload]
    ELSE persons

\* [p for p in people if p["id"] != target_del]
RECURSIVE WithoutId(_, _)
WithoutId(persons, id) ==
    IF persons = <<>> THEN <<>>
    ELSE (IF Head(persons).id # id THEN <<Head(persons)>> ELSE <<>>)
         \o WithoutId(Tail(persons), id)

\* the "(select)" option of the two selectboxes
Select == None

\* options of the selectboxes of lines 177 and 196
Options == {Select} \cup {people[i].id : i \in 1..Len(people)}

Init ==
    /\ people = <<>>
    /\ edit_id = None
    /\ uuid_count = 0
    /\ interval = 30
    /\ msg = "none"
    /\ grid = BuildStaffingGrid(<<>>, 30)
    /\ step_minutes = 30 /\ t = time(0, 0, 0) /\ times = <<>>
    /\ bpc = "idle" /\ df = NoFrame

\* lines 120-122
ClearForm ==
    /\ edit_id' = None
    /\ msg' = "none"
    /\ grid' = BuildStaffingGrid(people, interval)
    /\ UNCHANGED <<people, uuid_count, interval, buildVars>>

\* lines 124-127
ResetAll ==
    /\ people' = <<>>
    /\ edit_id' = None
    /\ msg' = "none"
    /\ grid' = BuildStaffingGrid(people', interval)
    /\ UNCHANGED <<uuid_count, interval, buildVars>>

\* lines 130-153
AddUpdate(form) ==
    /\ (FormError(form) = "none" /\ edit_id = None) =>
           (Len(people) < MaxPeople /\ uuid_count < MaxIds)
    /\ IF FormError(form) # "none"
       THEN /\ msg' = FormError(form)
            /\ UNCHANGED <<people, edit_id, uuid_count>>
       ELSE IF edit_id = None
       THEN /\ people' = Append(people, Payload(form, uuid_count + 1))
            /\ uuid_count' = uuid_count + 1
            /\ msg' = "none"
            /\ UNCHANGED edit_id
       ELSE /\ people' = UpdateExisting(people, edit_id, Payload(form, edit_id))
            /\ edit_id' = None
            /\ msg' = "none"
            /\ UNCHANGED uuid_count
    /\ grid' = BuildStaffingGrid(people', interval)
    /\ UNCHANGED <<interval, buildVars>>

\* lines 177-194
LoadIntoForm(target_edit) ==
    /\ Len(people) # 0
    /\ target_edit \in Options
    /\ IF target_edit # Select
       THEN edit_id' = target_edit /\ msg' = SelectedInfo
       ELSE edit_id' = edit_id /\ msg' = "none"
    /\ grid' = BuildStaffingGrid(people, interval)
    /\ UNCHANGED <<people, uuid_count, interval, buildVars>>

\* lines 196-202
Remove(target_del) ==
    /\ Len(people) # 0
    /\ target_del \in Options
    /\ people' = IF target_del # Select THEN WithoutId(people, target_del) ELSE people
    /\ msg' = "none"
    /\ grid' = BuildStaffingGrid(people', interval)
    /\ UNCHANGED <<edit_id, uuid_count, interval, buildVars>>

\* line 102: another interval is selected
SetInterval(i) ==
    /\ i # interval
    /\ interval' = i
    /\ msg' = "none"
    /\ grid' = BuildStaffingGrid(people, i)
    /\ UNCHANGED <<people, edit_id, uuid_count, buildVars>>

(* Form values the session is driven with: three that pass validation   *)
(* (an overnight shift ending at midnight on two consecutive days, an    *)
(* overnight shift on Sunday given by its days off, a same-day shift),   *)
(* two with a blank name and one with start = end.                       *)
Form(n, m, d, s, e) == [name |-> n, mode |-> m, days |-> d, start |-> s, end |-> e]

SessionForms ==
    {Form(<<" ", "A", " ">>, "Working days", <<"Monday", "Tuesday">>,
          time(22, 0, 0), time(0, 0, 0)),
     Form(<<"B">>, "Days off",
          <<"Monday", "Tuesday", "Wednesday", "Thursday", "Friday", "Saturday">>,
          time(22, 0, 0), time(6, 0, 0)),
     Form(<<"B">>, "Working days", <<"Tuesday", "Monday">>,
          time(9, 0, 0), time(17, 0, 0)),
     Form(<<" ">>, "Working days", <<"Monday", "Tuesday">>,
          time(9, 0, 0), time(17, 0, 0)),
     Form(<<>>, "Days off", <<>>, time(22, 0, 0), time(6, 0, 0)),
     Form(<<"B">>, "Working days", <<"Monday", "Tuesday">>,
          time(9, 0, 0), time(9, 0, 0))}

Next ==
    \/ ClearForm
    \/ ResetAll
    \/ \E form \in SessionForms : AddUpdate(form)
    \/ \E target \in 0..MaxIds : LoadIntoForm(target)
    \/ \E target \in 0..MaxIds : Remove(target)
    \/ \E i \in Intervals : SetInterval(i)

Spec == Init /\ [][Next]_vars

----------------------------------------------------------------------------
(* One person projected: an interval is selected and one form is added to  *)
(* the empty list, the form drawn from many shifts on a few day lists and  *)
(* from a few shifts on every day list in both modes.                      *)

GrainTimes == {time(0, k * TimeGrain, 0) : k \in 0..((24 * 60 - 1) \div TimeGrain)}

SpecTimes == {time(0, 0, 0), time(0, 5, 0), time(0, 15, 0), time(0, 30, 0), time(6, 0, 0),
              time(9, 0, 0), time(12, 5, 0), time(17, 0, 0), time(22, 0, 0),
              time(23, 30, 0), time(23, 45, 0)}

ShiftTimes == GrainTimes \cup SpecTimes

ShiftDays == {<<"Monday">>, <<"Sunday">>, <<"Saturday", "Sunday">>}

\* the names of the days of S, Monday first
DayNames(S) ==
    [k \in 1..Cardinality(S) |->
        DAYS[(CHOOSE d \in S : Cardinality({e \in S : e < d}) = k - 1) + 1]]

AllDayLists == {DayNames(S) : S \in SUBSET (0..6)}

DayShifts == {<<time(22, 0, 0), time(6, 0, 0)>>, <<time(9, 0, 0), time(17, 0, 0)>>,
              <<time(23, 30, 0), time(0, 30, 0)>>, <<time(12, 5, 0), time(0, 0, 0)>>}

ProjectForms ==
    {Form(<<"A">>, "Working days", d, s, e) :
        d \in ShiftDays, s \in ShiftTimes, e \in ShiftTimes} \cup
    {Form(<<"A">>, m, d, sh[1], sh[2]) :
        m \in {"Working days", "Days off"}, d \in AllDayLists, sh \in DayShifts}

NextProject ==
    \/ people = <<>> /\ \E i \in Intervals : SetInterval(i)
    \/ people = <<>> /\ \E form \in ProjectForms : AddUpdate(form)

SpecProject == Init /\ [][NextProject]_vars

----------------------------------------------------------------------------
(* Definitions the properties are stated with *)

\* the working days of a person, as the specification resolves them
Resolved(p) ==
    IF p.mode = "Working days" THEN Range(p.days) ELSE (0..6) \ Range(p.days)

\* the elements of S, largest first
Descending(S) ==
    [k \in 1..Cardinality(S) |->
        CHOOSE d \in S : Cardinality({e \in S : e > d}) = k - 1]

\* exactly one person is on the list, and its start is a multiple of the interval
OnePerson == Len(people) = 1
StartAligned == people[1].start % timedelta(interval) = 0
SameDay == people[1].end > people[1].start
Overnight == people[1].end < people[1].start

Orders(n) == {f \in [1..n -> 1..n] : \A i, j \in 1..n : f[i] = f[j] => i = j}

\* the valid form was stored: some record holds its fields
Stored(form, persons) ==
    \E i \in 1..Len(persons) :
        /\ persons[i].name = Strip(form.name)
        /\ persons[i].mode = form.mode
        /\ persons[i].days = [k \in 1..Len(form.days) |-> DAY_TO_IDX[form.days[k]]]
        /\ persons[i].start = form.start
        /\ persons[i].end = form.end

----------------------------------------------------------------------------
(* C1: overnight projection.  For an aligned start and end < start (also   *)
(* end = 00:00), each working day d adds exactly 1 to the cells of day d   *)
(* with start <= t < 24:00 and to the cells of day (d+1) mod 7 with        *)
(* 00:00 <= t < end, and to no other cell.                                 *)
C1_OvernightProjection ==
    (OnePerson /\ Overnight /\ StartAligned) =>
        \A r \in DOMAIN grid.data : \A c \in 0..6 :
            grid.data[r][c] =
                Cardinality({d \in Resolved(people[1]) :
                                c = d /\ people[1].start <= grid.index[r]})
              + Cardinality({d \in Resolved(people[1]) :
                                c = (d + 1) % 7 /\ grid.index[r] < people[1].end})

(* C2: same-day projection.  For an aligned start and end > start, the     *)
(* cells of each working day whose slot t satisfies start <= t < end are   *)
(* incremented by exactly 1 and every other cell is unchanged (0).         *)
C2_SameDayProjection ==
    (OnePerson /\ SameDay /\ StartAligned) =>
        \A r \in DOMAIN grid.data : \A c \in 0..6 :
            grid.data[r][c] =
                IF /\ c \in Resolved(people[1])
                   /\ people[1].start <= grid.index[r]
                   /\ grid.index[r] < people[1].end
                THEN 1 ELSE 0

\* Monday 09:00-17:00 at interval 60: rows 09:00..16:00 of Monday hold 1
C2_Witness ==
    /\ OnePerson /\ interval = 60
    /\ people[1].mode = "Working days" /\ people[1].days = <<0>>
    /\ people[1].start = time(9, 0, 0) /\ people[1].end = time(17, 0, 0)
    /\ {r \in DOMAIN grid.data : grid.data[r][0] = 1} = 10..17

(* C3: days-off complement.  A person with mode "Days off" and days S      *)
(* yields the same grid as the same shift with mode "Working days" and     *)
(* days {0..6} minus S.                                                    *)
C3_DaysOffComplement ==
    (OnePerson /\ people[1].mode = "Days off") =>
        grid = apply_person_to_grid(build_empty_grid(interval),
                    [people[1] EXCEPT !.mode = "Working days",
                                      !.days = Descending((0..6) \ Range(@))],
                    interval)

\* days off Saturday and Sunday: Monday is worked, Saturday is not
C3_Witness ==
    /\ OnePerson /\ people[1].mode = "Days off" /\ people[1].days = <<5, 6>>
    /\ \E r \in DOMAIN grid.data : grid.data[r][0] = 1
    /\ \A r \in DOMAIN grid.data : grid.data[r][5] = 0

(* C4: person-order invariance.  Applying the persons of the list in any   *)
(* permutation to an empty grid yields the grid built in list order.       *)
C4_PersonOrderInvariance ==
    \A f \in Orders(Len(people)) :
        BuildStaffingGrid([i \in 1..Len(people) |-> people[f[i]]], interval) = grid

\* two persons with different shifts and days are on the list
C4_Witness ==
    /\ Len(people) = 2
    /\ people[1].start # people[2].start
    /\ people[1].days # people[2].days
    /\ \E r \in DOMAIN grid.data : \E c \in 0..6 : grid.data[r][c] = 2

(* C7: a rejected Add/Update (name blank after trimming, or start = end)   *)
(* leaves the people list unchanged, and with it the grid that is rebuilt. *)
C7_RejectedAddUpdateChangesNothing ==
    [][\A form \in SessionForms :
          ((Strip(form.name) = <<>> \/ form.start = form.end) /\ AddUpdate(form))
              => (people' = people /\ grid' = grid)]_vars

\* an Add/Update was rejected while the list held a person
C7_Witness == msg \in {NameError, DurationError} /\ Len(people) >= 1

(* C8: misaligned ticks are skipped.  For a same-day shift a cell is       *)
(* incremented only where a generated tick start + k*interval equals its   *)
(* row label, and when start is no multiple of the interval no cell of the *)
(* grid changes.                                                           *)
C8_MisalignedTicksSkipped ==
    (OnePerson /\ SameDay) =>
        /\ \A r \in DOMAIN grid.data : \A c \in 0..6 :
              grid.data[r][c] # 0 =>
                  (grid.index[r] - people[1].start) % timedelta(interval) = 0
        /\ ~StartAligned => grid = build_empty_grid(interval)

\* a shift 12:05-17:00 was projected at interval 15 and the grid is still zero
C8_Witness ==
    /\ OnePerson /\ interval = 15 /\ people[1].days # <<>>
    /\ people[1].start = time(12, 5, 0) /\ people[1].end = time(17, 0, 0)
    /\ grid = build_empty_grid(15)

(* C9: no person is counted twice in one slot: with n persons on the list  *)
(* (each with start # end) every cell of the grid is between 0 and n.      *)
C9_NoDoubleCount ==
    \A r \in DOMAIN grid.data : \A c \in 0..6 :
        0 <= grid.data[r][c] /\ grid.data[r][c] <= Len(people)

(* C10: an accepted Add/Update is never lost: when the form passes         *)
(* validation the people list afterwards holds a record with the submitted *)
(* name, mode, days, start and end.                                        *)
C10_AcceptedAddUpdateStored ==
    [][\A form \in SessionForms :
          (Strip(form.name) # <<>> /\ form.start # form.end /\ AddUpdate(form))
              => Stored(form, people')]_vars

----------------------------------------------------------------------------
(* C5: for every interval i that evenly divides 1440, build_empty_grid(i)  *)
(* returns exactly 1440/i rows labelled 00:00, i, 2i, ... below 24:00 in   *)
(* ascending order, the 7 columns Monday..Sunday, and only zero cells.     *)
C5_EmptyGridShape ==
    (bpc = "returned" /\ step_minutes > 0 /\ 1440 % step_minutes = 0) =>
        /\ Len(df.index) = 1440 \div step_minutes
        /\ \A k \in 1..Len(df.index) : df.index[k] = time(0, (k - 1) * step_minutes, 0)
        /\ \A k \in 1..Len(df.index) : df.index[k] < time(24, 0, 0)
        /\ df.columns = DAYS
        /\ DOMAIN df.data = 1..(1440 \div step_minutes)
        /\ \A r \in DOMAIN df.data :
              /\ DOMAIN df.data[r] = 0..6
              /\ \A c \in 0..6 : df.data[r][c] = 0

\* build_empty_grid(45) has returned its 32-row frame
C5_Witness ==
    bpc = "returned" /\ step_minutes = 45 /\ Len(df.index) = 32 /\ df.index[32] = time(23, 15, 0)

(* C6: build_empty_grid called with an interval that does not evenly       *)
(* divide 1440, or with an interval <= 0, returns no grid.                 *)
C6_InvalidIntervalReturnsNoGrid ==
    (step_minutes <= 0 \/ 1440 % step_minutes # 0) => (bpc # "returned" /\ df = NoFrame)

====
